---- MODULE Spec2Model ----
(***************************************************************************)
(* Model of the Conan recipe `basis_conan_project` (conanfile.py).         *)
(*                                                                         *)
(* State: the recipe's own options, the settings, the environment flags    *)
(* read through _environ_option, the option values of the dependencies     *)
(* (self.options["dep"].x), the declared requirements, the CMake           *)
(* definitions and the log of CMake calls issued by build() and package(). *)
(* One action per recipe method; build() and package() advance at every    *)
(* blocking call to the external build tool, whose exit status is the only *)
(* nondeterministic input after Init.                                      *)
(*                                                                         *)
(* The environment flags are held as the booleans _environ_option and      *)
(* _is_tests_enabled (both inherited from conan_build_helper) resolve them *)
(* to. The file copies of imports() and package() and the descriptive      *)
(* package_info() change none of the state below and are left out.         *)
(***************************************************************************)
EXTENDS Naturals, Sequences, FiniteSets, TLC

VARIABLES
    options,        \* self.options of the recipe itself
    settings,       \* self.settings (build_type, compiler, compiler.version)
    env,            \* resolved environment flags (_environ_option)
    dep_options,    \* self.options["dep"].<sub-option>
    dep_options0,   \* dep_options as they were before configure() was called
    written,        \* sub-options assigned by the last configure(), in order
    checked,        \* constraints reached by the last configure(), in order
    error,          \* message of the ConanInvalidConfiguration raised, or NoError
    warned,         \* self.output.warn was called by configure()
    runs,           \* number of configure() calls so far
    requires,       \* self.requires(...) declarations
    build_requires, \* self.build_requires(...) declarations
    definitions,    \* cmake.definitions of the CMake helper in use
    phases,         \* external build-tool calls issued so far
    results,        \* their exit status, aligned with phases
    pc              \* position of the run in Conan's method sequence

vars == << options, settings, env, dep_options, dep_options0, written, checked,
           error, warned, runs, requires, build_requires, definitions, phases,
           results, pc >>

----------------------------------------------------------------------------
(* Bounds *)

\* configure() is applied at most this many times to one option graph
MaxConfigureRuns == 2

----------------------------------------------------------------------------
(* Declarations of the recipe *)

Sanitizers == << "enable_ubsan", "enable_asan", "enable_msan", "enable_tsan" >>

SanitizerSet == { Sanitizers[i] : i \in 1..Len(Sanitizers) }

OptionNames == { "shared", "debug", "enable_ubsan", "enable_asan",
                 "enable_msan", "enable_tsan", "enable_valgrind" }

BuildTypes == { "Release", "Debug", "RelWithDebInfo" }

\* compiler and compiler.version
Compilers == { << "gcc", "9" >>, << "clang", "10" >> }

\* the inputs that only select CMake definitions and build requirements are
\* drawn together: a shared clang build with cppcheck, a static gcc build without
Toolchains ==
    { [ shared |-> FALSE, compiler |-> << "gcc", "9" >>, cppcheck |-> FALSE ],
      [ shared |-> TRUE, compiler |-> << "clang", "10" >>, cppcheck |-> TRUE ] }

\* dependencies whose sub-options configure() assigns or reads
GraphDeps == { "chromium_base", "chromium_libxml", "boost", "corrade",
               "openssl", "conan_gtest", "benchmark" }

SubOptions == SanitizerSet \cup { "enable_valgrind", "no_exceptions" }

Unset == "unset"

NoError == ""

MsgLlvmTools == "llvm_tools must be enabled"

MsgSanitizersLlvm == "sanitizers require llvm_tools"

MsgSanitizersBoost == "sanitizers require boost without exceptions"

\* truth value of a dependency's option value
Truthy(v) == v = "True"

\* str.lower() on the build types Conan knows
Lower(s) ==
    CASE s = "Release" -> "release"
      [] s = "Debug" -> "debug"
      [] s = "RelWithDebInfo" -> "relwithdebinfo"

----------------------------------------------------------------------------
(* Environment flags *)

_is_compile_with_llvm_tools_enabled(e) == e.COMPILE_WITH_LLVM_TOOLS

_is_llvm_tools_enabled(e) == e.ENABLE_LLVM_TOOLS

_is_cppcheck_enabled(e) == e.ENABLE_CPPCHECK

_is_tests_enabled(e) == e.ENABLE_TESTS

----------------------------------------------------------------------------
(* configure() *)

AnySanitizer(o) ==
    o.enable_ubsan \/ o.enable_asan \/ o.enable_msan \/ o.enable_tsan

\* line 118: the warning for non-release builds without llvm_tools
WarnsDebug(s, e) ==
    Lower(s.build_type) # "release" /\ ~_is_llvm_tools_enabled(e)

\* line 121
CompileRequiresLlvm_m(e) ==
    _is_compile_with_llvm_tools_enabled(e) /\ _is_llvm_tools_enabled(e)

CompileRequiresLlvm(e) ==
    _is_compile_with_llvm_tools_enabled(e) /\ ~_is_llvm_tools_enabled(e)

\* lines 127-131
SanitizersRequireLlvm_m(o, e) ==
    AnySanitizer(o) /\ _is_llvm_tools_enabled(e)

SanitizersRequireLlvm(o, e) ==
    AnySanitizer(o) /\ ~_is_llvm_tools_enabled(e)

\* lines 134-138
SanitizersRequireBoost_m(o, g) ==
    AnySanitizer(o) /\ Truthy(g["boost"]["no_exceptions"])

SanitizersRequireBoost(o, g) ==
    AnySanitizer(o) /\ ~Truthy(g["boost"]["no_exceptions"])

\* lines 124-125
ValgrindWrites(o) ==
    IF o.enable_valgrind THEN << << "chromium_base", "enable_valgrind" >> >>
    ELSE << >>

\* the dependencies one sanitizer block assigns, in statement order
SanitizerTargets_m(e) ==
    << "chromium_base", "chromium_libxml", "boost", "corrade" >>
    \o (IF _is_tests_enabled(e) THEN << "conan_gtest", "benchmark" >> ELSE << >>)

SanitizerTargets_u(e) ==
    << "chromium_base", "chromium_libxml", "boost", "corrade", "openssl",
       "conan_gtest", "benchmark" >>

SanitizerTargets(e) ==
    << "chromium_base", "chromium_libxml", "boost", "corrade", "openssl" >>
    \o (IF _is_tests_enabled(e) THEN << "conan_gtest", "benchmark" >> ELSE << >>)

\* one of the four blocks of lines 141-179
SanitizerWrites(o, e, x) ==
    IF o[x]
    THEN [ i \in 1..Len(SanitizerTargets(e)) |-> << SanitizerTargets(e)[i], x >> ]
    ELSE << >>

\* lines 141-179
PropagationWrites(o, e) ==
    SanitizerWrites(o, e, "enable_ubsan") \o SanitizerWrites(o, e, "enable_asan")
    \o SanitizerWrites(o, e, "enable_msan") \o SanitizerWrites(o, e, "enable_tsan")

\* self.options[dep].opt = True for every write of ws
ApplyWrites_m(g, ws) ==
    [ d \in DOMAIN g |-> [ so \in DOMAIN g[d] |->
        IF \E i \in 1..Len(ws) : ws[i] = << d, so >>
        THEN (IF g[d][so] = "True" THEN "False" ELSE "True")
        ELSE g[d][so] ] ]

ApplyWrites(g, ws) ==
    [ d \in DOMAIN g |-> [ so \in DOMAIN g[d] |->
        IF \E i \in 1..Len(ws) : ws[i] = << d, so >> THEN "True" ELSE g[d][so] ] ]

\* the body of configure(), statement by statement; a raise ends it
ConfigureOrder_m(o, s, e, g) ==
    LET w == WarnsDebug(s, e)
        vw == ValgrindWrites(o)
        g1 == ApplyWrites(g, vw)
        pw == PropagationWrites(o, e)
    IN  IF SanitizersRequireBoost(o, g)
        THEN [ error |-> MsgSanitizersBoost, graph |-> g, written |-> << >>,
               checked |-> << 3 >>, warned |-> w ]
        ELSE IF SanitizersRequireLlvm(o, e)
        THEN [ error |-> MsgSanitizersLlvm, graph |-> g, written |-> << >>,
               checked |-> << 3, 2 >>, warned |-> w ]
        ELSE IF CompileRequiresLlvm(e)
        THEN [ error |-> MsgLlvmTools, graph |-> g1, written |-> vw,
               checked |-> << 3, 2, 1 >>, warned |-> w ]
        ELSE [ error |-> NoError, graph |-> ApplyWrites(g1, pw),
               written |-> vw \o pw, checked |-> << 3, 2, 1 >>, warned |-> w ]

ConfigureResult(o, s, e, g) ==
    LET w == WarnsDebug(s, e)
        vw == ValgrindWrites(o)
        g1 == ApplyWrites(g, vw)
        pw == PropagationWrites(o, e)
    IN  IF CompileRequiresLlvm(e)
        THEN [ error |-> MsgLlvmTools, graph |-> g, written |-> << >>,
               checked |-> << 1 >>, warned |-> w ]
        ELSE IF SanitizersRequireLlvm(o, e)
        THEN [ error |-> MsgSanitizersLlvm, graph |-> g1, written |-> vw,
               checked |-> << 1, 2 >>, warned |-> w ]
        ELSE IF SanitizersRequireBoost(o, g1)
        THEN [ error |-> MsgSanitizersBoost, graph |-> g1, written |-> vw,
               checked |-> << 1, 2, 3 >>, warned |-> w ]
        ELSE [ error |-> NoError, graph |-> ApplyWrites(g1, pw),
               written |-> vw \o pw, checked |-> << 1, 2, 3 >>, warned |-> w ]

----------------------------------------------------------------------------
(* requirements() and build_requirements() *)

\* a reference name/version@user/channel as <<name, rest>>
Ref(name, rest) == << name, rest >>

RefName(r) == r[1]

Names(refs) == { RefName(r) : r \in refs }

\* lines 225-226
NoDoctest(s) ==
    Lower(s.build_type) # "debug" /\ Lower(s.build_type) # "relwithdebinfo"

RequirementsOf(s, e) ==
    { Ref("boost", "1.72.0@dev/stable"),
      Ref("corrade", "v2020.06@conan/stable"),
      Ref("fmt", "master@dev/stable"),
      Ref("entt", "3.5.2"),
      Ref("chromium_build_util", "master@conan/stable"),
      Ref("chromium_libxml", "stable@conan/stable"),
      Ref("chromium_base", "master@conan/stable"),
      Ref("openssl", "1.1.1-stable@conan/stable") }
    \cup (IF _is_tests_enabled(e)
          THEN { Ref("conan_gtest", "stable@conan/stable"),
                 Ref("benchmark", "v1.5.2@dev/stable") }
          ELSE {})
    \cup (IF ~NoDoctest(s) THEN { Ref("doctest", "[>=2.3.8]") } ELSE {})

BuildRequirementsOf(o, e) ==
    { Ref("cmake_platform_detection", "master@conan/stable"),
      Ref("cmake_build_options", "master@conan/stable"),
      Ref("cmake_helper_utils", "master@conan/stable") }
    \cup (IF AnySanitizer(o)
          THEN { Ref("cmake_sanitizers", "master@conan/stable") } ELSE {})
    \cup (IF _is_cppcheck_enabled(e)
          THEN { Ref("cppcheck_installer", "1.90@conan/stable") } ELSE {})
    \cup (IF _is_llvm_tools_enabled(e)
          THEN { Ref("llvm_tools", "master@conan/stable") } ELSE {})
    \cup (IF _is_tests_enabled(e)
          THEN { Ref("catch2", "[>=2.1.0]@bincrafters/stable"),
                 Ref("FakeIt", "[>=2.0.5]@gasuketsu/stable") }
          ELSE {})

----------------------------------------------------------------------------
(* _configure_cmake(), build(), package() *)

OnOff(b) == IF b THEN "ON" ELSE "OFF"

\* cmake.definitions as set up by _configure_cmake before cmake.configure
CMakeDefinitions(o, s, e) ==
    ( "ENABLE_VALGRIND" :> OnOff(o.enable_valgrind) ) @@
    ( "ENABLE_UBSAN" :> OnOff(o.enable_ubsan) ) @@
    ( "ENABLE_ASAN" :> OnOff(o.enable_asan) ) @@
    ( "ENABLE_MSAN" :> OnOff(o.enable_msan) ) @@
    ( "ENABLE_TSAN" :> OnOff(o.enable_tsan) ) @@
    ( "CONAN_AUTO_INSTALL" :> "OFF" ) @@
    ( "ENABLE_DOCTEST" :> OnOff(~NoDoctest(s)) ) @@
    ( IF o.shared THEN ( "BUILD_SHARED_LIBS" :> "ON" ) ELSE << >> ) @@
    ( "ENABLE_TESTS" :> OnOff(_is_tests_enabled(e)) ) @@
    ( "COMPILE_WITH_LLVM_TOOLS" :> OnOff(_is_compile_with_llvm_tools_enabled(e)) )

\* lines 301-305: explicit compiler executables for gcc
GccDefinitions(s) ==
    IF s.compiler[1] = "gcc"
    THEN ( "CMAKE_C_COMPILER" :> << "gcc-", s.compiler[2] >> ) @@
         ( "CMAKE_CXX_COMPILER" :> << "g++-", s.compiler[2] >> )
    ELSE << >>

\* where build() goes after cmake.build returned
AfterBuild_m(ok, e) ==
    IF _is_tests_enabled(e) THEN "build_test" ELSE "package"

AfterBuild_t(ok, e) ==
    IF ~ok THEN "failed" ELSE "build_test"

AfterBuild(ok, e) ==
    IF ~ok THEN "failed"
    ELSE IF _is_tests_enabled(e) THEN "build_test" ELSE "package"

\* an exception of the external call leaves the method and ends the run
AfterCall(ok, next) == IF ok THEN next ELSE "failed"

----------------------------------------------------------------------------
(* The run *)

TypeOK ==
    /\ options \in [ OptionNames -> BOOLEAN ]
    /\ settings \in [ build_type : BuildTypes, compiler : Compilers ]
    /\ env \in [ ENABLE_LLVM_TOOLS : BOOLEAN, COMPILE_WITH_LLVM_TOOLS : BOOLEAN,
                 ENABLE_CPPCHECK : BOOLEAN, ENABLE_TESTS : BOOLEAN ]
    /\ dep_options \in [ GraphDeps -> [ SubOptions -> { Unset, "True", "False" } ] ]
    /\ error \in { NoError, MsgLlvmTools, MsgSanitizersLlvm, MsgSanitizersBoost }
    /\ warned \in BOOLEAN
    /\ runs \in 0..(MaxConfigureRuns + 1)
    /\ Len(phases) = Len(results)

\* the option graph before configure(): what the dependencies' recipes and
\* the user's profile gave
InitialGraphs ==
    { [ d \in GraphDeps |-> [ so \in SubOptions |->
          IF so = "no_exceptions"
          THEN (IF d = "boost" THEN ne ELSE Unset)
          ELSE v ] ] :
      v \in { Unset, "False", "True" }, ne \in { "True", "False" } }

Init ==
    /\ options \in [ OptionNames -> BOOLEAN ]
    /\ options.debug = FALSE
    /\ settings \in [ build_type : BuildTypes, compiler : Compilers ]
    /\ env \in [ ENABLE_LLVM_TOOLS : BOOLEAN, COMPILE_WITH_LLVM_TOOLS : BOOLEAN,
                 ENABLE_CPPCHECK : BOOLEAN, ENABLE_TESTS : BOOLEAN ]
    /\ \E tc \in Toolchains :
         /\ options.shared = tc.shared
         /\ settings.compiler = tc.compiler
         /\ env.ENABLE_CPPCHECK = tc.cppcheck
    /\ dep_options \in InitialGraphs
    /\ dep_options0 = dep_options
    /\ written = << >>
    /\ checked = << >>
    /\ error = NoError
    /\ warned = FALSE
    /\ runs = 0
    /\ requires = {}
    /\ build_requires = {}
    /\ definitions = << >>
    /\ phases = << >>
    /\ results = << >>
    /\ pc = "configure"

\* the effect of one call of configure() on the option graph
ConfigureBody ==
    LET r == ConfigureResult(options, settings, env, dep_options)
    IN  /\ dep_options0' = dep_options
        /\ dep_options' = r.graph
        /\ written' = r.written
        /\ checked' = r.checked
        /\ error' = r.error
        /\ warned' = r.warned
        /\ runs' = runs + 1

Configure ==
    /\ pc = "configure"
    /\ ConfigureBody
    /\ pc' = IF error' = NoError THEN "requirements" ELSE "failed"
    /\ UNCHANGED << options, settings, env, requires, build_requires,
                    definitions, phases, results >>

Requirements ==
    /\ pc = "requirements"
    /\ requires' = RequirementsOf(settings, env)
    /\ pc' = "build_requirements"
    /\ UNCHANGED << options, settings, env, dep_options, dep_options0, written,
                    checked, error, warned, runs, build_requires, definitions,
                    phases, results >>

BuildRequirements ==
    /\ pc = "build_requirements"
    /\ build_requires' = BuildRequirementsOf(options, env)
    /\ pc' = "build"
    /\ UNCHANGED << options, settings, env, dep_options, dep_options0, written,
                    checked, error, warned, runs, requires, definitions,
                    phases, results >>

\* one blocking call of the external build tool
Call(phase, ok) ==
    /\ phases' = Append(phases, phase)
    /\ results' = Append(results, ok)

Frame ==
    UNCHANGED << options, settings, env, dep_options, dep_options0, written,
                 checked, error, warned, runs, requires, build_requires >>

\* build(): cmake = self._configure_cmake()
BuildConfigureCMake ==
    /\ pc = "build"
    /\ definitions' = CMakeDefinitions(options, settings, env)
    /\ \E ok \in BOOLEAN :
         /\ Call("Configure", ok)
         /\ pc' = AfterCall(ok, "build_configure")
    /\ Frame

\* build(): the gcc definitions and cmake.configure(source_folder=".")
BuildConfigure ==
    /\ pc = "build_configure"
    /\ definitions' = GccDefinitions(settings) @@ definitions
    /\ \E ok \in BOOLEAN :
         /\ Call("Configure", ok)
         /\ pc' = AfterCall(ok, "build_build")
    /\ Frame

\* build(): cmake.build(args=["--", "-jN"])
BuildBuild ==
    /\ pc = "build_build"
    /\ \E ok \in BOOLEAN :
         /\ Call("Build", ok)
         /\ pc' = AfterBuild(ok, env)
    /\ UNCHANGED definitions
    /\ Frame

\* build(): cmake.test(target="basis_run_unittests")
BuildTest ==
    /\ pc = "build_test"
    /\ \E ok \in BOOLEAN :
         /\ Call("Test", ok)
         /\ pc' = AfterCall(ok, "package")
    /\ UNCHANGED definitions
    /\ Frame

\* package(): cmake = self._configure_cmake()
PackageConfigureCMake ==
    /\ pc = "package"
    /\ definitions' = CMakeDefinitions(options, settings, env)
    /\ \E ok \in BOOLEAN :
         /\ Call("Configure", ok)
         /\ pc' = AfterCall(ok, "package_install")
    /\ Frame

\* package(): cmake.install() and the copies after it
PackageInstall ==
    /\ pc = "package_install"
    /\ \E ok \in BOOLEAN :
         /\ Call("Install", ok)
         /\ pc' = AfterCall(ok, "done")
    /\ UNCHANGED definitions
    /\ Frame

Next ==
    \/ Configure
    \/ Requirements
    \/ BuildRequirements
    \/ BuildConfigureCMake
    \/ BuildConfigure
    \/ BuildBuild
    \/ BuildTest
    \/ PackageConfigureCMake
    \/ PackageInstall

Spec == Init /\ [][Next]_vars

\* every method Conan calls returns: the run is not abandoned half-way
FairSpec == Spec /\ WF_vars(Next)

\* configure() applied repeatedly to one configuration and the graph it left
Reconfigure ==
    /\ pc = "configure"
    /\ runs < MaxConfigureRuns
    /\ ConfigureBody
    /\ UNCHANGED << options, settings, env, requires, build_requires,
                    definitions, phases, results, pc >>

NextPropagate == Reconfigure

SpecPropagate == Init /\ [][NextPropagate]_vars

----------------------------------------------------------------------------
(* Properties *)

\* configure() has been called
Configured == runs > 0

SanOn ==
    \/ options.enable_ubsan
    \/ options.enable_asan
    \/ options.enable_msan
    \/ options.enable_tsan

LlvmOn == env.ENABLE_LLVM_TOOLS

CompileOn == env.COMPILE_WITH_LLVM_TOOLS

TestsOn == env.ENABLE_TESTS

BoostNoExceptions == dep_options0["boost"]["no_exceptions"] = "True"

Count(seq, x) == Cardinality({ i \in 1..Len(seq) : seq[i] = x })

WrittenSet == { written[i] : i \in 1..Len(written) }

\* C1 as stated: with a sanitizer enabled, configure() fails with
\* "sanitizers require llvm_tools" when ENABLE_LLVM_TOOLS is false and passes
\* validation when it is true.
C1_Original ==
    (Configured /\ SanOn) =>
        IF ~LlvmOn THEN error = MsgSanitizersLlvm ELSE error = NoError

\* C1 as amended: with a sanitizer enabled and ENABLE_LLVM_TOOLS false,
\* configure() always fails, with "sanitizers require llvm_tools" unless
\* COMPILE_WITH_LLVM_TOOLS is true, when the earlier "llvm_tools must be
\* enabled" is raised; with ENABLE_LLVM_TOOLS true neither tooling constraint
\* fails and validation passes exactly when boost.no_exceptions is true.
C1_Amended ==
    (Configured /\ SanOn) =>
        IF ~LlvmOn
        THEN error = (IF CompileOn THEN MsgLlvmTools ELSE MsgSanitizersLlvm)
        ELSE /\ error \notin { MsgLlvmTools, MsgSanitizersLlvm }
             /\ (error = NoError) <=> BoostNoExceptions

C1_Witness ==
    /\ Configured
    /\ options.enable_tsan
    /\ ~LlvmOn
    /\ ~CompileOn
    /\ error = MsgSanitizersLlvm

\* C2: COMPILE_WITH_LLVM_TOOLS without ENABLE_LLVM_TOOLS makes configure()
\* fail with "llvm_tools must be enabled" whatever the build type, sanitizer
\* and valgrind options are; without COMPILE_WITH_LLVM_TOOLS that error is
\* never raised.
C2_CompileRequiresTooling ==
    Configured =>
        /\ (CompileOn /\ ~LlvmOn) => error = MsgLlvmTools
        /\ ~CompileOn => error # MsgLlvmTools

C2_Witness ==
    /\ Configured
    /\ CompileOn
    /\ ~LlvmOn
    /\ options.enable_asan
    /\ options.enable_valgrind
    /\ settings.build_type = "Release"
    /\ error = MsgLlvmTools

\* C3: with a sanitizer enabled configure() succeeds only if
\* boost.no_exceptions is true, and with it false the error is "sanitizers
\* require boost without exceptions" unless an earlier constraint failed;
\* with no sanitizer enabled boost.no_exceptions never causes a failure.
C3_SanitizersRequireNoExceptions ==
    Configured =>
        /\ (SanOn /\ error = NoError) => BoostNoExceptions
        /\ (SanOn /\ ~BoostNoExceptions /\ LlvmOn) => error = MsgSanitizersBoost
        /\ ~SanOn => error = (IF CompileOn /\ ~LlvmOn THEN MsgLlvmTools ELSE NoError)

C3_Witness ==
    /\ Configured
    /\ options.enable_msan
    /\ LlvmOn
    /\ ~BoostNoExceptions
    /\ error = MsgSanitizersBoost

\* C4: configure() reaches its constraints in the order compile-with-tooling,
\* sanitizers-require-tooling, sanitizers-require-boost-no-exceptions, raises
\* the violation of the first violated one only, and reaches none after it.
C4_FirstViolationOnly ==
    Configured =>
        IF CompileOn /\ ~LlvmOn
        THEN error = MsgLlvmTools /\ checked = << 1 >>
        ELSE IF SanOn /\ ~LlvmOn
        THEN error = MsgSanitizersLlvm /\ checked = << 1, 2 >>
        ELSE IF SanOn /\ ~BoostNoExceptions
        THEN error = MsgSanitizersBoost /\ checked = << 1, 2, 3 >>
        ELSE error = NoError /\ checked = << 1, 2, 3 >>

C4_Witness ==
    /\ Configured
    /\ CompileOn
    /\ ~LlvmOn
    /\ SanOn
    /\ ~BoostNoExceptions
    /\ error = MsgLlvmTools
    /\ checked = << 1 >>

\* C5: build() issues no Test call when tests are disabled; when they are
\* enabled it issues at most one, directly after the Build call, and exactly
\* one once cmake.build has returned and build() has moved past it.
C5_TestPhase ==
    /\ ~TestsOn => Count(phases, "Test") = 0
    /\ Count(phases, "Test") <= 1
    /\ \A i \in 1..Len(phases) :
         phases[i] = "Test" => (i > 1 /\ phases[i - 1] = "Build" /\ results[i - 1])
    /\ ( /\ TestsOn
         /\ pc # "build_test"
         /\ \E i \in 1..Len(phases) : phases[i] = "Build" /\ results[i] )
       => Count(phases, "Test") = 1

C5_Witness ==
    /\ TestsOn
    /\ pc = "package"
    /\ phases = << "Configure", "Configure", "Build", "Test" >>

\* C6: after configure() passed, every enabled sanitizer flag X is True on
\* every declared sanitizer-aware dependency, no enable_X of a disabled flag
\* has been assigned, and enable_valgrind has reached chromium_base.
C6_Propagation ==
    (Configured /\ error = NoError) =>
        /\ \A x \in { "enable_ubsan", "enable_asan", "enable_msan", "enable_tsan" } :
             IF options[x]
             THEN \A d \in { "chromium_base", "chromium_libxml", "boost",
                             "corrade", "openssl", "conan_gtest", "benchmark" }
                           \cap Names(RequirementsOf(settings, env)) :
                    /\ dep_options[d][x] = "True"
                    /\ << d, x >> \in WrittenSet
             ELSE \A d \in DOMAIN dep_options :
                    /\ << d, x >> \notin WrittenSet
                    /\ dep_options[d][x] = dep_options0[d][x]
        /\ options.enable_valgrind =>
             /\ dep_options["chromium_base"]["enable_valgrind"] = "True"
             /\ << "chromium_base", "enable_valgrind" >> \in WrittenSet

C6_Witness ==
    /\ Configured
    /\ error = NoError
    /\ options.enable_asan
    /\ ~options.enable_tsan
    /\ options.enable_valgrind
    /\ TestsOn
    /\ dep_options0["openssl"]["enable_asan"] = "False"
    /\ dep_options["openssl"]["enable_asan"] = "True"
    /\ dep_options["benchmark"]["enable_asan"] = "True"

\* C7: a second configure() with the same configuration on the graph the
\* first one left changes nothing in the graph and ends as the first did.
C7_Idempotent ==
    [][ (runs >= 1 /\ runs' = runs + 1) =>
            (dep_options' = dep_options /\ error' = error) ]_vars

C7_Witness ==
    /\ runs = 2
    /\ options.enable_ubsan
    /\ options.enable_valgrind
    /\ error = NoError
    /\ dep_options0["corrade"]["enable_ubsan"] = "True"
    /\ dep_options["corrade"]["enable_ubsan"] = "True"

\* the calls of a run without failure
FullSequence ==
    << "Configure", "Configure", "Build" >>
    \o (IF TestsOn THEN << "Test" >> ELSE << >>)
    \o << "Configure", "Install" >>

IsPrefix(p, s) ==
    /\ Len(p) <= Len(s)
    /\ \A i \in 1..Len(p) : p[i] = s[i]

Rank(ph) ==
    CASE ph = "Configure" -> 1
      [] ph = "Build" -> 2
      [] ph = "Test" -> 3
      [] ph = "Install" -> 4

Terminated == pc \in { "done", "failed" }

\* C8 as stated: every phase is entered at most once and never after a later
\* one.
C8_Original ==
    \A i, j \in 1..Len(phases) : i < j => Rank(phases[i]) < Rank(phases[j])

C8_Safe ==
    /\ IsPrefix(phases, FullSequence)
    /\ \A i \in 1..Len(results) : i < Len(results) => results[i]
    /\ error # NoError => phases = << >>
    /\ (pc = "failed") <=>
          \/ error # NoError
          \/ (Len(results) > 0 /\ ~results[Len(results)])
    /\ (pc = "done") <=>
          (phases = FullSequence /\ \A i \in 1..Len(results) : results[i])
    /\ \A i \in 1..Len(phases) :
          phases[i] = "Install" => \A j \in 1..(i - 1) : results[j]

\* C8 as amended: a run goes one way through configure(), Configure,
\* Configure, Build, (Test), Configure, Install: Build, Test and Install are
\* entered at most once and in this order, Configure three times, the third
\* after Build and Test; a failed validation or external call moves the run to
\* Failed, where nothing more is executed, so Install never follows a failed
\* Build or Test; every run ends in Done or Failed.
C8_Amended ==
    /\ []C8_Safe
    /\ [][ pc = "failed" => (pc' = "failed" /\ phases' = phases) ]_vars
    /\ <>Terminated

C8_Witness ==
    /\ pc = "failed"
    /\ TestsOn
    /\ phases = << "Configure", "Configure", "Build", "Test" >>
    /\ results = << TRUE, TRUE, TRUE, FALSE >>

\* C9: whenever configure() fails with a constraint violation no dependency
\* sub-option has been written, the option graph is the one before the call
\* and no definitions or build-tool calls have been produced.
C9_NoWriteOnFailure ==
    (Configured /\ error # NoError) =>
        /\ written = << >>
        /\ dep_options = dep_options0
        /\ phases = << >>
        /\ definitions = << >>

\* C10: every dependency configure() assigns a sub-option of is declared by
\* requirements() for the same configuration; conan_gtest and benchmark are
\* assigned only when tests are enabled, which is exactly when they are
\* required.
C10_TargetsAreRequired ==
    LET targets == { w[1] : w \in WrittenSet }
        declared == { r[1] : r \in RequirementsOf(settings, env) }
    IN  /\ targets \subseteq declared
        /\ pc \notin { "configure", "requirements", "failed" } =>
              targets \subseteq { r[1] : r \in requires }
        /\ \A d \in { "conan_gtest", "benchmark" } :
              /\ d \in targets => TestsOn
              /\ d \in declared <=> TestsOn

C10_Witness ==
    /\ pc = "build_requirements"
    /\ TestsOn
    /\ options.enable_asan
    /\ << "conan_gtest", "enable_asan" >> \in WrittenSet
    /\ << "conan_gtest", "stable@conan/stable" >> \in requires

====
